---- MODULE Spec2Model ----
(***************************************************************************)
(* Model of the 112-helpline analytics dashboard (app.py and modules/).    *)
(*                                                                         *)
(* Time is counted in ticks; a calendar day has TicksPerDay ticks and a    *)
(* timestamp is an integer number of ticks, tick 0 of a day being          *)
(* midnight.  Calendar dates are day numbers, day 0 being a Monday, so     *)
(* date.weekday() is (day % 7).  Percentages are exact rationals <<p, q>>  *)
(* with q > 0 (floating point rounding is not modelled).                   *)
(***************************************************************************)
EXTENDS Integers, Sequences, FiniteSets, TLC

\* ------------------------------------------------------------------ bounds
TicksPerDay == 2
MaxRows == 7
MaxFestivals == 2
MaxEvents == 2
MaxRecords == 1

\* ------------------------------------------------------- program constants
WeekLen == 7
NaT == -999999
None == -999998
NaN == -999997
HoursPerDay == 24
InitMaxPct == -999
DefaultThresholdPct == 30
DefaultMinCalls == 5
NonFestival == "Non-Festival"

\* ------------------------------------------------------------ time helpers
\* pd.to_datetime(x).date() / .dt.date: the calendar day of a timestamp
DateOf(ts) == IF ts = NaT THEN NaT ELSE ts \div TicksPerDay

\* pd.to_datetime(date): midnight of a calendar day
ToTimestamp(d) == IF d = NaT THEN NaT ELSE d * TicksPerDay

\* date.weekday(), Monday = 0
weekday(d) == d % WeekLen

\* str.lower() on the category strings the model uses
Lower(s) ==
    CASE s = "Crime" -> "crime"
      [] s = "CRIME" -> "crime"
      [] s = "Other" -> "other"
      [] OTHER -> s

\* ------------------------------------------------------------- preprocess
\* pd.to_datetime(..., errors="coerce"): a raw value that does not parse
\* (modelled as a negative number) becomes NaT
ParseTs(raw) == IF raw < 0 THEN NaT ELSE raw

\* .dt.hour: the hour at which the tick of the day begins; NaN for NaT
HourOf(ts) ==
    IF ts = NaT THEN NaN ELSE (ts % TicksPerDay) * (HoursPerDay \div TicksPerDay)

\* .dt.day_name(): day 0 is Monday 1 January 2024; NaN for NaT
DayNames ==
    <<"Monday", "Tuesday", "Wednesday", "Thursday", "Friday", "Saturday", "Sunday">>
NoDayName == "NaN"
day_name(d) == IF d = NaT THEN NoDayName ELSE DayNames[weekday(d) + 1]

\* .dt.month and .dt.year of the days of January and February 2024
MonthOf(d) == IF d = NaT THEN NaN ELSE IF d < 31 THEN 1 ELSE 2
YearOf(d) == IF d = NaT THEN NaN ELSE 2024

\* one row of preprocess(): parsed timestamp, derived time fields, normalized
\* text; isin() is False for a missing weekday
NormRow(raw) ==
    LET ts == ParseTs(raw.call_ts) IN
    [call_ts      |-> ts,
     date         |-> DateOf(ts),
     hour         |-> HourOf(ts),
     weekday      |-> day_name(DateOf(ts)),
     month        |-> MonthOf(DateOf(ts)),
     year         |-> YearOf(DateOf(ts)),
     is_weekend   |-> day_name(DateOf(ts)) \in {"Saturday", "Sunday"},
     category     |-> Lower(raw.category),
     jurisdiction |-> raw.jurisdiction]

\* the column bad_timestamp exists only when some timestamp did not parse
preprocess(rows) ==
    LET any_bad == \E i \in DOMAIN rows : ParseTs(rows[i].call_ts) = NaT IN
    [i \in DOMAIN rows |->
        IF any_bad
        THEN ("bad_timestamp" :> (ParseTs(rows[i].call_ts) = NaT)) @@ NormRow(rows[i])
        ELSE NormRow(rows[i])]

\* ------------------------------------------------- rational arithmetic
RatGT(a, b) == a[1] * b[2] > b[1] * a[2]
RatGE(a, b) == a[1] * b[2] >= b[1] * a[2]
RatEQ(a, b) == a[1] * b[2] = b[1] * a[2]

RECURSIVE SumOver(_, _)
SumOver(f, S) ==
    IF S = {} THEN 0
    ELSE LET x == CHOOSE y \in S : TRUE IN f[x] + SumOver(f, S \ {x})

\* Series.mean() of the entries of f with index in S (S non-empty)
MeanOver(f, S) == <<SumOver(f, S), Cardinality(S)>>

\* --------------------------------------------------------------- state
VARIABLES
    \* filter_significant_festivals: arguments
    df,               \* the record table: [none |-> BOOLEAN, rows |-> Seq(row)]
    festivals,        \* list of <<name, start_ts, end_ts>>
    category, threshold_pct, min_calls,
    \* filter_significant_festivals: locals and result
    spc,              \* position: "idle", "begin", "festival", "day", "done"
    counts_by_date,   \* function: date -> number of category rows
    idx,              \* index of the festival the for loop is at
    cur,              \* day the while loop is at
    max_pct, max_count, max_day,
    day_count, baseline, pct,   \* values computed for the last scored day
    results,
    \* app.py: one run of the script
    pc,               \* position of the run in the script
    input,            \* what the sidebar's data input provides
    feed,             \* the remote calendar document
    df_raw,
    date_range, selected_categories, selected_jurisdictions,
    fetch_failed,     \* the "Could not fetch festival ICS" warning was shown
    all_festivals, festivals_in_range_all, significant_festals_info,
    df_filtered,
    views,            \* the sections rendered so far
    metadata,
    hr, hr_totals,    \* the tables of the hourly distribution
    \* the browser session
    fetched           \* a request was sent to the calendar feed

scoreVars == <<df, festivals, category, threshold_pct, min_calls, spc,
               counts_by_date, idx, cur, max_pct, max_count, max_day,
               day_count, baseline, pct, results>>

appVars == <<pc, input, feed, df_raw, date_range, selected_categories,
             selected_jurisdictions, fetch_failed, all_festivals,
             festivals_in_range_all, significant_festals_info, df_filtered,
             views, metadata, hr, hr_totals, fetched>>

vars == <<scoreVars, appVars>>

\* a table value: None, or a sequence of rows
NoTable == [none |-> TRUE, rows |-> <<>>]
Table(rows) == [none |-> FALSE, rows |-> rows]

\* df is None or df.empty
IsEmptyTable(t) == t.none \/ Len(t.rows) = 0

\* ------------------------------------------------------------- load_data
\* config.py
REQUIRED_COLUMNS ==
    {"call_id", "call_ts", "caller_lat", "caller_lon", "category", "jurisdiction"}

\* mutant of missing: the validation forgotten
missing_Nothing(columns) == {}

\* [c for c in REQUIRED_COLUMNS if c not in df.columns]
missing(columns) == REQUIRED_COLUMNS \ columns

\* the metadata: None, or the dict of which the model keeps record_count
NoMetadata == [none |-> TRUE, record_count |-> 0]
Metadata(rows) == [none |-> FALSE, record_count |-> Len(rows)]

\* load_data on a file with the given columns and rows: it raises ValueError,
\* or returns (df, metadata)
load_data(columns, rows) ==
    IF missing(columns) # {}
    THEN [raises |-> TRUE, df |-> NoTable, metadata |-> NoMetadata]
    ELSE [raises |-> FALSE, df |-> Table(rows), metadata |-> Metadata(rows)]

\* ------------------------------------------ filter_significant_festivals
\* mutant of df_cat: the category test forgotten
df_cat_AnyCategory(rows, cat) == rows

\* df[df['category'].astype(str).str.lower() == category.lower()]
df_cat(rows, cat) == SelectSeq(rows, LAMBDA r : Lower(r.category) = Lower(cat))

\* df_cat.groupby('__date').size(): rows without a date (NaT) are dropped
CountsByDate(rows) ==
    LET dates == {rows[i].date : i \in DOMAIN rows} \ {NaT} IN
    [d \in dates |-> Cardinality({i \in DOMAIN rows : rows[i].date = d})]

\* int(counts_by_date.get(cur, 0))
DayCount(cbd, d) == IF d \in DOMAIN cbd THEN cbd[d] ELSE 0

\* counts_by_date[[d for d in counts_by_date.index if d.weekday() == weekday]]
same_wd_dates(cbd, d) == {x \in DOMAIN cbd : weekday(x) = weekday(d)}

\* mutant of Baseline: the weekday match forgotten
Baseline_OverallMean(cbd, d) ==
    IF DOMAIN cbd # {} THEN MeanOver(cbd, DOMAIN cbd) ELSE <<0, 1>>

\* mutant of Baseline: the fallback to the overall mean forgotten
Baseline_NoFallback(cbd, d) ==
    IF same_wd_dates(cbd, d) # {} THEN MeanOver(cbd, same_wd_dates(cbd, d))
    ELSE <<0, 1>>

\* the baseline of day d, as a rational <<sum, n>>
Baseline(cbd, d) ==
    IF same_wd_dates(cbd, d) # {} THEN MeanOver(cbd, same_wd_dates(cbd, d))
    ELSE IF DOMAIN cbd # {} THEN MeanOver(cbd, DOMAIN cbd)
    ELSE <<0, 1>>

\* mutant of baseline_adj: the adjustment applied to every baseline
baseline_adj_AlwaysOne(b) == <<1, 1>>

\* baseline if baseline > 0 else 1.0
baseline_adj(b) == IF b[1] > 0 THEN b ELSE <<1, 1>>

\* (day_count - baseline_adj) / baseline_adj * 100.0, as a rational
Pct(dc, b) ==
    LET ba == baseline_adj(b) IN <<(dc * ba[2] - ba[1]) * 100, ba[1]>>

\* mutants of IsNewMax: the floor forgotten; ">=" for ">"
IsNewMax_NoFloor(dc, p, mc, mp) == RatGT(p, mp)
IsNewMax_LastWins(dc, p, mc, mp) == dc >= mc /\ RatGE(p, mp)

\* if day_count >= min_calls and pct > max_pct
IsNewMax(dc, p, mc, mp) == dc >= mc /\ RatGT(p, mp)

\* mutant of IsSignificant: ">" for ">="
IsSignificant_Strict(md, mp, thr) == md # None /\ RatGT(mp, <<thr, 1>>)

\* if max_day is not None and max_pct >= threshold_pct
IsSignificant(md, mp, thr) == md # None /\ RatGE(mp, <<thr, 1>>)

\* lines 28-43: the early returns and the count table
ScoreBegin ==
    /\ spc = "begin"
    /\ IF IsEmptyTable(df) \/ Len(df_cat(df.rows, category)) = 0
       THEN /\ spc' = "done"
            /\ UNCHANGED counts_by_date
       ELSE /\ spc' = "festival"
            /\ counts_by_date' = CountsByDate(df_cat(df.rows, category))
    /\ results' = <<>>
    /\ idx' = 1
    /\ UNCHANGED <<df, festivals, category, threshold_pct, min_calls, cur,
                   max_pct, max_count, max_day, day_count, baseline, pct>>
    /\ UNCHANGED appVars

\* lines 46-53: the head of the for loop
ScoreFestival ==
    /\ spc = "festival"
    /\ IF idx > Len(festivals)
       THEN /\ spc' = "done"
            /\ UNCHANGED <<cur, max_pct, max_count, max_day>>
       ELSE /\ spc' = "day"
            /\ cur' = DateOf(festivals[idx][2])
            /\ max_pct' = <<InitMaxPct, 1>>
            /\ max_count' = 0
            /\ max_day' = None
    /\ UNCHANGED <<df, festivals, category, threshold_pct, min_calls,
                   counts_by_date, idx, day_count, baseline, pct, results>>
    /\ UNCHANGED appVars

\* lines 55-77: one iteration of the while loop
ScoreDay ==
    /\ spc = "day"
    /\ cur <= DateOf(festivals[idx][3])
    /\ day_count' = DayCount(counts_by_date, cur)
    /\ baseline' = Baseline(counts_by_date, cur)
    /\ pct' = Pct(day_count', baseline')
    /\ IF IsNewMax(day_count', pct', min_calls, max_pct)
       THEN /\ max_pct' = pct'
            /\ max_count' = day_count'
            /\ max_day' = cur
       ELSE UNCHANGED <<max_pct, max_count, max_day>>
    /\ cur' = cur + 1
    /\ UNCHANGED <<df, festivals, category, threshold_pct, min_calls, spc,
                   counts_by_date, idx, results>>
    /\ UNCHANGED appVars

\* lines 79-88: after the while loop
ScoreEmit ==
    /\ spc = "day"
    /\ cur > DateOf(festivals[idx][3])
    /\ results' =
         IF IsSignificant(max_day, max_pct, threshold_pct)
         THEN Append(results,
                     [name |-> festivals[idx][1], start |-> festivals[idx][2],
                      end |-> festivals[idx][3], max_pct |-> max_pct,
                      max_count |-> max_count, max_day |-> ToTimestamp(max_day)])
         ELSE results
    /\ idx' = idx + 1
    /\ spc' = "festival"
    /\ UNCHANGED <<df, festivals, category, threshold_pct, min_calls,
                   counts_by_date, cur, max_pct, max_count, max_day,
                   day_count, baseline, pct>>
    /\ UNCHANGED appVars

ScoreStep == ScoreBegin \/ ScoreFestival \/ ScoreDay \/ ScoreEmit

\* the locals before the call
ScoreLocalsInit ==
    /\ counts_by_date = <<>>
    /\ idx = 1
    /\ cur = 0
    /\ max_pct = <<InitMaxPct, 1>>
    /\ max_count = 0
    /\ max_day = None
    /\ day_count = 0
    /\ baseline = <<0, 1>>
    /\ pct = <<0, 1>>
    /\ results = <<>>

\* ------------------------------------------------------ festivals_ics.py
\* A calendar component is a record [name, summary, allday, has_end, dtstart,
\* dtend]: a date-only (all-day) value is a day number, a date-time value a
\* timestamp.  A feed is [status, components].

\* pd.to_datetime(dtstart), pd.to_datetime(dtend)
EventTs(c, v) == IF c.allday THEN ToTimestamp(v) ELSE v

\* mutant of ClampEnd: the inverted interval kept
ClampEnd_Missing(start, end) == end

\* if end < start: end = start
ClampEnd(start, end) == IF end < start THEN start ELSE end

\* the body of the VEVENT branch: (name, start, end)
ConvertEvent(c) ==
    LET start == EventTs(c, c.dtstart)
        end == IF c.allday THEN EventTs(c, c.dtend) - TicksPerDay
               ELSE EventTs(c, c.dtend)
    IN  <<c.summary, start, ClampEnd(start, end)>>

\* the components of cal.walk() that are VEVENTs, in feed order
VEvents(f) == SelectSeq(f.components, LAMBDA c : c.name = "VEVENT")

\* requests.get / raise_for_status / Calendar.from_ical raise, or a VEVENT
\* has no DTEND (component.get("DTEND") is None, and None has no .dt)
FetchRaises(f) ==
    \/ f.status # "ok"
    \/ \E i \in DOMAIN f.components :
           f.components[i].name = "VEVENT" /\ ~ f.components[i].has_end

\* the list the function returns when it does not raise
fetch_festivals_from_ics(f) ==
    [i \in DOMAIN VEvents(f) |-> ConvertEvent(VEvents(f)[i])]

\* ----------------------------------------------------------------- app.py
\* mutant of Catalog: the events converted before the failure are kept
Catalog_KeepsPartial(f) ==
    IF f.status # "ok" THEN <<>>
    ELSE fetch_festivals_from_ics(
             [f EXCEPT !.components = SelectSeq(f.components, LAMBDA c : c.has_end)])

\* lines 74-78: try fetch_festivals_from_ics(), except Exception: []
Catalog(f) == IF FetchRaises(f) THEN <<>> ELSE fetch_festivals_from_ics(f)

\* comparisons of timestamps: any comparison with NaT is False
TsLE(a, b) == a # NaT /\ b # NaT /\ a <= b
TsLT(a, b) == a # NaT /\ b # NaT /\ a < b

\* fs <= ts <= fe
Contains(f, ts) == TsLE(f[2], ts) /\ TsLE(ts, f[3])

\* mutants of tag_festival_for_row: the last matching interval wins; the
\* containment test written as not (ts < fs) and not (fe < ts)
RECURSIVE tag_festival_for_row_LastMatch(_, _)
tag_festival_for_row_LastMatch(ts, fl) ==
    IF fl = <<>> THEN NonFestival
    ELSE IF Contains(fl[Len(fl)], ts) THEN fl[Len(fl)][1]
    ELSE tag_festival_for_row_LastMatch(ts, SubSeq(fl, 1, Len(fl) - 1))

RECURSIVE tag_festival_for_row_NegatedTest(_, _)
tag_festival_for_row_NegatedTest(ts, fl) ==
    IF fl = <<>> THEN NonFestival
    ELSE IF ~ TsLT(ts, Head(fl)[2]) /\ ~ TsLT(Head(fl)[3], ts) THEN Head(fl)[1]
    ELSE tag_festival_for_row_NegatedTest(ts, Tail(fl))

\* lines 132-136: the first interval of the list that contains ts
RECURSIVE tag_festival_for_row(_, _)
tag_festival_for_row(ts, fl) ==
    IF fl = <<>> THEN NonFestival
    ELSE IF Contains(Head(fl), ts) THEN Head(fl)[1]
    ELSE tag_festival_for_row(ts, Tail(fl))

\* lines 102-108: the rows the mask keeps
Mask(rows, dr, cats, jurs) ==
    SelectSeq(rows, LAMBDA r :
        /\ TsLE(ToTimestamp(dr[1]), ToTimestamp(r.date))
        /\ TsLE(ToTimestamp(r.date), ToTimestamp(dr[2]))
        /\ r.category \in cats
        /\ r.jurisdiction \in jurs)

\* lines 113-121: the catalog intervals that pass the overlap test
FestivalsInRange(all, dr) ==
    SelectSeq(all, LAMBDA f :
        /\ TsLE(ToTimestamp(dr[1]), f[3])
        /\ TsLE(f[2], ToTimestamp(dr[2])))

\* lines 139-143: the festival_name column
TagColumn(rows, fl) ==
    [i \in DOMAIN rows |->
        ("festival_name" :>
            (IF fl # <<>> THEN tag_festival_for_row(rows[i].call_ts, fl)
             ELSE NonFestival)) @@ rows[i]]

\* the values of a column, NaN dropped
ColumnValues(rows, col) == {rows[i][col] : i \in DOMAIN rows}

\* the sections a run renders after tagging (lines 145-281)
MainViews == {"kpis", "maps", "time_series", "hourly", "category",
              "data_sample", "metadata"}

AppDays == 0 .. 1
DateRanges == {dr \in AppDays \X AppDays : dr[1] <= dr[2]}

\* lines 35-51: load the uploaded file or the sample
Load ==
    /\ pc = "load"
    /\ IF input.uploaded \/ (input.use_sample /\ input.sample_exists)
       THEN LET loaded == load_data(input.columns, input.rows) IN
            IF loaded.raises
            THEN /\ pc' = "stopped"          \* st.error, st.stop
                 /\ df_raw' = NoTable
                 /\ metadata' = NoMetadata
            ELSE /\ pc' = "preprocess"
                 /\ df_raw' = loaded.df
                 /\ metadata' = loaded.metadata
       ELSE /\ pc' = "preprocess"            \* a message only, df_raw is None
            /\ df_raw' = NoTable
            /\ metadata' = NoMetadata
    /\ UNCHANGED <<hr, hr_totals, input, feed, fetched, date_range, selected_categories,
                   selected_jurisdictions, fetch_failed, all_festivals,
                   festivals_in_range_all, significant_festals_info,
                   df_filtered, views>>
    /\ UNCHANGED scoreVars

\* line 56: df = preprocess(df_raw); None has no .copy()
Preprocess ==
    /\ pc = "preprocess"
    /\ IF df_raw.none
       THEN /\ pc' = "crashed"
            /\ UNCHANGED df
       ELSE /\ pc' = "widgets"
            /\ df' = Table(preprocess(df_raw.rows))
    /\ UNCHANGED <<festivals, category, threshold_pct, min_calls, spc,
                   counts_by_date, idx, cur, max_pct, max_count, max_day,
                   day_count, baseline, pct, results>>
    /\ UNCHANGED <<hr, hr_totals, input, feed, metadata, fetched, df_raw, date_range, selected_categories,
                   selected_jurisdictions, fetch_failed, all_festivals,
                   festivals_in_range_all, significant_festals_info,
                   df_filtered, views>>

\* lines 61-70: the user picks a date range, categories and jurisdictions
Widgets ==
    /\ pc = "widgets"
    /\ ColumnValues(df.rows, "date") \ {NaT} # {}
    /\ date_range' \in DateRanges
    /\ selected_categories' \in SUBSET ColumnValues(df.rows, "category")
    /\ selected_jurisdictions' \in SUBSET ColumnValues(df.rows, "jurisdiction")
    /\ pc' = "fetch"
    /\ UNCHANGED <<hr, hr_totals, input, feed, metadata, fetched, df_raw, fetch_failed, all_festivals,
                   festivals_in_range_all, significant_festals_info,
                   df_filtered, views>>
    /\ UNCHANGED scoreVars

\* lines 62-64 on a table without any valid date: min_date and max_date are
\* NaT, and what st.date_input makes of them is not decided by this code
WidgetsUndated ==
    /\ pc = "widgets"
    /\ ColumnValues(df.rows, "date") \ {NaT} = {}
    /\ \/ /\ pc' = "crashed"
          /\ UNCHANGED <<date_range, selected_categories, selected_jurisdictions>>
       \/ /\ pc' = "fetch"
          /\ date_range' \in DateRanges
          /\ selected_categories' \in SUBSET ColumnValues(df.rows, "category")
          /\ selected_jurisdictions' \in SUBSET ColumnValues(df.rows, "jurisdiction")
    /\ UNCHANGED <<hr, hr_totals, input, feed, metadata, fetched, df_raw, fetch_failed, all_festivals,
                   festivals_in_range_all, significant_festals_info,
                   df_filtered, views>>
    /\ UNCHANGED scoreVars

\* lines 74-78: fetch the catalog; a failure is a warning and an empty list
Fetch ==
    /\ pc = "fetch"
    /\ fetched' = TRUE
    /\ fetch_failed' = FetchRaises(feed)
    /\ all_festivals' = Catalog(feed)
    /\ pc' = "calendar"
    /\ UNCHANGED <<hr, hr_totals, input, feed, metadata, df_raw, date_range, selected_categories,
                   selected_jurisdictions, festivals_in_range_all,
                   significant_festals_info, df_filtered, views>>
    /\ UNCHANGED scoreVars

\* lines 80-96: the sidebar calendar, shown when the catalog is not empty
Calendar ==
    /\ pc = "calendar"
    /\ views' = IF all_festivals # <<>> THEN {"calendar"} ELSE {}
    /\ pc' = "filter"
    /\ UNCHANGED <<hr, hr_totals, input, feed, metadata, fetched, df_raw, date_range, selected_categories,
                   selected_jurisdictions, fetch_failed, all_festivals,
                   festivals_in_range_all, significant_festals_info, df_filtered>>
    /\ UNCHANGED scoreVars

\* lines 102-108
Filter ==
    /\ pc = "filter"
    /\ df_filtered' = Mask(df.rows, date_range, selected_categories,
                           selected_jurisdictions)
    /\ pc' = "inrange"
    /\ UNCHANGED <<hr, hr_totals, input, feed, metadata, fetched, df_raw, date_range, selected_categories,
                   selected_jurisdictions, fetch_failed, all_festivals,
                   festivals_in_range_all, significant_festals_info, views>>
    /\ UNCHANGED scoreVars

\* lines 113-121
InRange ==
    /\ pc = "inrange"
    /\ festivals_in_range_all' = FestivalsInRange(all_festivals, date_range)
    /\ pc' = "score"
    /\ UNCHANGED <<hr, hr_totals, input, feed, metadata, fetched, df_raw, date_range, selected_categories,
                   selected_jurisdictions, fetch_failed, all_festivals,
                   significant_festals_info, df_filtered, views>>
    /\ UNCHANGED scoreVars

\* mutant of ScoreArg: the filtered table is scored
ScoreArg_Filtered(d, dfilt) == Table(dfilt)

\* line 124: of df and df_filtered, the table passed as the argument df
ScoreArg(d, dfilt) == d

\* lines 124-125: the call of filter_significant_festivals
ScoreCall ==
    /\ pc = "score"
    /\ spc = "idle"
    /\ festivals' = festivals_in_range_all
    /\ df' = ScoreArg(df, df_filtered)
    /\ category' = "crime"
    /\ threshold_pct' = DefaultThresholdPct
    /\ min_calls' = DefaultMinCalls
    /\ spc' = "begin"
    /\ UNCHANGED <<counts_by_date, idx, cur, max_pct, max_count, max_day,
                   day_count, baseline, pct, results>>
    /\ UNCHANGED appVars

\* lines 124-127: its return; the function's locals are gone
ScoreReturn ==
    /\ pc = "score"
    /\ spc = "done"
    /\ significant_festals_info' = results
    /\ pc' = "tag"
    /\ spc' = "idle"
    /\ counts_by_date' = <<>>
    /\ idx' = 1
    /\ cur' = 0
    /\ max_pct' = <<InitMaxPct, 1>>
    /\ max_count' = 0
    /\ max_day' = None
    /\ day_count' = 0
    /\ baseline' = <<0, 1>>
    /\ pct' = <<0, 1>>
    /\ results' = <<>>
    /\ UNCHANGED <<df, festivals, category, threshold_pct, min_calls>>
    /\ UNCHANGED <<hr, hr_totals, input, feed, metadata, fetched, df_raw, date_range, selected_categories,
                   selected_jurisdictions, fetch_failed, all_festivals,
                   festivals_in_range_all, df_filtered, views>>

\* lines 132-143
Tag ==
    /\ pc = "tag"
    /\ df_filtered' = TagColumn(df_filtered, festivals_in_range_all)
    /\ pc' = "views"
    /\ UNCHANGED <<hr, hr_totals, input, feed, metadata, fetched, df_raw, date_range, selected_categories,
                   selected_jurisdictions, fetch_failed, all_festivals,
                   festivals_in_range_all, significant_festals_info, views>>
    /\ UNCHANGED scoreVars

\* analysis.py ----------------------------------------------------------
\* df.groupby(hour_col).size(): the hours that occur, with the number of their
\* rows; rows without an hour (NaN) are dropped
GroupByHour(rows) ==
    LET hours == {rows[i].hour : i \in DOMAIN rows} \ {NaN} IN
    [h \in hours |-> Cardinality({i \in DOMAIN rows : rows[i].hour = h})]

\* agg_calls_by_hour: the counts merged onto range(24), 0 where there is none
agg_calls_by_hour(rows) ==
    LET series == GroupByHour(rows) IN
    [k \in 1..HoursPerDay |->
        [hour |-> k - 1,
         count |-> IF (k - 1) \in DOMAIN series THEN series[k - 1] ELSE 0]]

\* the festival names in the order in which groupby sorts them
SortedNames == <<"Diwali", "Holi", "Non-Festival", "Shigmo">>

\* df_filtered.groupby(["hour", "festival_name"]).size().reset_index(): one
\* row for each pair that occurs, by hour and then by name
GroupByHourAndFestival(rows) ==
    LET n == Len(SortedNames)
        pairs ==
            [k \in 1..(HoursPerDay * n) |->
                [hour |-> (k - 1) \div n,
                 festival_name |-> SortedNames[((k - 1) % n) + 1],
                 count |-> Cardinality({i \in DOMAIN rows :
                               /\ rows[i].hour = (k - 1) \div n
                               /\ rows[i].festival_name = SortedNames[((k - 1) % n) + 1]})]]
    IN  SelectSeq(pairs, LAMBDA r : r.count > 0)

RECURSIVE SumCounts(_)
SumCounts(t) == IF t = <<>> THEN 0 ELSE Head(t).count + SumCounts(Tail(t))

\* hr.groupby("hour")["count"].sum().reset_index(): one row for each hour
\* that occurs in hr
HourTotals(t) ==
    LET sums ==
            [k \in 1..HoursPerDay |->
                [hour |-> k - 1,
                 count |-> SumCounts(SelectSeq(t, LAMBDA r : r.hour = k - 1))]]
    IN  SelectSeq(sums, LAMBDA s : \E j \in DOMAIN t : t[j].hour = s.hour)

\* lines 145-281: the overlap warning, KPIs, maps, charts, sample, metadata;
\* lines 249-259: the hourly table, by festival when intervals are in range
Views ==
    /\ pc = "views"
    /\ views' = views \cup MainViews \cup
                (IF festivals_in_range_all # <<>> THEN {"overlap_warning"} ELSE {})
    /\ IF festivals_in_range_all # <<>>
       THEN /\ hr' = GroupByHourAndFestival(df_filtered)
            /\ hr_totals' = HourTotals(hr')
       ELSE /\ hr' = agg_calls_by_hour(df_filtered)
            /\ UNCHANGED hr_totals
    /\ pc' = "done"
    /\ UNCHANGED <<input, feed, metadata, fetched, df_raw, date_range, selected_categories,
                   selected_jurisdictions, fetch_failed, all_festivals,
                   festivals_in_range_all, significant_festals_info, df_filtered>>
    /\ UNCHANGED scoreVars

\* the variables a run of the script assigns, before it assigns them
AppStart ==
    /\ df_raw = NoTable
    /\ date_range = <<0, 0>>
    /\ selected_categories = {}
    /\ selected_jurisdictions = {}
    /\ fetch_failed = FALSE
    /\ all_festivals = <<>>
    /\ festivals_in_range_all = <<>>
    /\ significant_festals_info = <<>>
    /\ df_filtered = <<>>
    /\ views = {}
    /\ metadata = NoMetadata
    /\ hr = <<>>
    /\ hr_totals = <<>>

\* the app's variables when the function is called outside the app
AppIdle ==
    /\ pc = "idle"
    /\ input = [uploaded |-> FALSE, use_sample |-> FALSE, sample_exists |-> FALSE,
                columns |-> {}, rows |-> <<>>]
    /\ feed = [status |-> "ok", components |-> <<>>]
    /\ AppStart
    /\ fetched = FALSE

\* ------------------------------- inputs of the scoring specification
\* the timestamps a row of the scored table may carry: the Monday and the
\* Tuesday of the first week, the Monday of the second, or none (negative)
ScoreRowTs == <<0, TicksPerDay, WeekLen * TicksPerDay, -1>>

\* the table with n[k] "crime" rows at ScoreRowTs[k] and n[5] "other" rows
RECURSIVE Repeat(_, _)
Repeat(x, n) == IF n = 0 THEN <<>> ELSE <<x>> \o Repeat(x, n - 1)

RawRow(ts, cat) == [call_ts |-> ts, category |-> cat, jurisdiction |-> "Panaji"]

ScoreRows(n) ==
    Repeat(RawRow(ScoreRowTs[1], "crime"), n[1]) \o
    Repeat(RawRow(ScoreRowTs[2], "crime"), n[2]) \o
    Repeat(RawRow(ScoreRowTs[3], "crime"), n[3]) \o
    Repeat(RawRow(ScoreRowTs[4], "crime"), n[4]) \o
    Repeat(RawRow(ScoreRowTs[1], "other"), n[5])

ScoreTables ==
    {NoTable} \cup
    {Table(preprocess(ScoreRows(n))) :
        n \in {m \in [1..5 -> 0..MaxRows] :
                  m[1] + m[2] + m[3] + m[4] + m[5] <= MaxRows}}

\* festival intervals of the scoring runs: day 0, days 0-1, days 1-2, and
\* days 0-1 from and to a time after midnight
ScoreIntervals ==
    {<<0, 0>>, <<0, TicksPerDay>>, <<TicksPerDay, 2 * TicksPerDay>>,
     <<1, TicksPerDay + 1>>}

FestivalNames == <<"Diwali", "Holi", "Shigmo">>

\* lists of at most MaxFestivals intervals, named by position
ScoreFestivalLists ==
    UNION {{[i \in 1..n |-> <<FestivalNames[((i - 1) % 3) + 1], iv[i][1], iv[i][2]>>] :
               iv \in [1..n -> ScoreIntervals]} : n \in 0..MaxFestivals}

ScoreParams == {<<DefaultThresholdPct, DefaultMinCalls>>, <<0, 3>>}

\* the category argument, in the table's spelling and, for the runs with
\* threshold 0, in capitals
ScoreCategories == {"crime", "CRIME"}

InitScore ==
    /\ df \in ScoreTables
    /\ festivals \in ScoreFestivalLists
    /\ category \in ScoreCategories
    /\ \E p \in ScoreParams : threshold_pct = p[1] /\ min_calls = p[2]
    /\ category # "crime" => threshold_pct = 0
    /\ spc = "begin"
    /\ ScoreLocalsInit
    /\ AppIdle

NextScore == ScoreStep

SpecScore == InitScore /\ [][NextScore]_vars

\* ------------------------------------------- inputs of the app's runs
RawRow0 == RawRow(0, "crime")

\* the raw rows of an input file: a "crime" call at any tick of days 0 and 1
\* or with a timestamp that does not parse, or an "other" call
AppRowKinds ==
    {RawRow(t, "crime") : t \in 0 .. (2 * TicksPerDay - 1)}
        \cup {RawRow(-1, "crime"), RawRow(0, "other")}

AppRowLists == UNION {[1..n -> AppRowKinds] : n \in 0..MaxRecords}

\* a file with a day that scores as significant: five "crime" calls on day 0,
\* one on the Monday after it, and an "other" call on the Saturday between
BusyRows ==
    Repeat(RawRow(0, "crime"), 3) \o Repeat(RawRow(1, "crime"), 2) \o
    <<RawRow(WeekLen * TicksPerDay, "crime"), RawRow(5 * TicksPerDay, "other")>>

FileInput(up, sample, exists, columns, rows) ==
    [uploaded |-> up, use_sample |-> sample, sample_exists |-> exists,
     columns |-> columns, rows |-> rows]

\* an uploaded file with all columns and any rows; the sample file; the busy
\* file; an upload that lacks one required column; a sample file that lacks five; no upload
\* and no sample file; no upload and the sample option switched off
AppInputs ==
    {FileInput(TRUE, TRUE, TRUE, REQUIRED_COLUMNS, rows) : rows \in AppRowLists}
        \cup {FileInput(FALSE, TRUE, TRUE, REQUIRED_COLUMNS, <<RawRow0>>),
              FileInput(TRUE, TRUE, TRUE, REQUIRED_COLUMNS, BusyRows)}
        \cup {FileInput(TRUE, TRUE, TRUE, REQUIRED_COLUMNS \ {c}, <<RawRow0>>) :
                 c \in REQUIRED_COLUMNS}
        \cup {FileInput(FALSE, TRUE, TRUE, {"call_id"}, <<RawRow0>>),
              FileInput(FALSE, TRUE, FALSE, {}, <<>>),
              FileInput(FALSE, FALSE, TRUE, REQUIRED_COLUMNS, <<RawRow0>>)}

\* the files a user uploads after the first run
NewInputs == {i \in AppInputs : i.uploaded /\ i.rows = <<RawRow0>>}

VEvent(allday, has_end, dtstart, dtend) ==
    [name |-> "VEVENT", summary |-> "", allday |-> allday, has_end |-> has_end,
     dtstart |-> dtstart, dtend |-> dtend]

OtherComponent ==
    [name |-> "VTIMEZONE", summary |-> "", allday |-> FALSE, has_end |-> FALSE,
     dtstart |-> 0, dtend |-> 0]

\* the events of the app's feeds: all-day on day 0, on days 0-1, on day 1; a
\* timed event from midnight of day 0 to the second tick of day 1; a timed
\* event at the last tick of day 1; an event without DTEND
AppComponents ==
    {VEvent(TRUE, TRUE, 0, 1), VEvent(TRUE, TRUE, 0, 2), VEvent(TRUE, TRUE, 1, 2),
     VEvent(FALSE, TRUE, 0, TicksPerDay + 1),
     VEvent(FALSE, TRUE, 2 * TicksPerDay - 1, 2 * TicksPerDay - 1),
     VEvent(TRUE, FALSE, 0, 0)}

\* the events of the feeds of the fetch specification: every all-day and
\* every timed event of days 0-1, inverted ones included, an event without
\* DTEND and a component that is no event
IcsComponents ==
    {VEvent(TRUE, TRUE, a, b) : a \in 0..1, b \in 0..2}
        \cup {VEvent(FALSE, TRUE, a, b) :
                 a \in 0 .. (2 * TicksPerDay - 1), b \in 0 .. (2 * TicksPerDay - 1)}
        \cup {VEvent(TRUE, FALSE, 0, 0), OtherComponent}

\* SUMMARY by position in the feed
Named(cs) ==
    [i \in DOMAIN cs |-> [cs[i] EXCEPT !.summary = FestivalNames[((i - 1) % 3) + 1]]]

FeedsOf(kinds) ==
    {[status |-> "unavailable", components |-> <<>>]} \cup
    {[status |-> "ok", components |-> Named(cs)] :
        cs \in UNION {[1..n -> kinds] : n \in 0..MaxEvents}}

\* a change of a widget after a finished run: Streamlit runs the script again
\* from its first line, with the same file and none of the run's variables
Rerun ==
    /\ pc = "done"
    /\ pc' = "load"
    /\ df' = NoTable
    /\ df_raw' = NoTable
    /\ metadata' = NoMetadata
    /\ date_range' = <<0, 0>>
    /\ selected_categories' = {}
    /\ selected_jurisdictions' = {}
    /\ fetch_failed' = FALSE
    /\ all_festivals' = <<>>
    /\ festivals_in_range_all' = <<>>
    /\ significant_festals_info' = <<>>
    /\ df_filtered' = <<>>
    /\ views' = {}
    /\ hr' = <<>>
    /\ hr_totals' = <<>>
    /\ UNCHANGED <<input, feed, fetched>>
    /\ UNCHANGED <<festivals, category, threshold_pct, min_calls, spc,
                   counts_by_date, idx, cur, max_pct, max_count, max_day,
                   day_count, baseline, pct, results>>

\* another file is uploaded after a run that finished, stopped or crashed:
\* the script runs again from its first line
NewInput ==
    /\ pc \in {"done", "stopped", "crashed"}
    /\ input' \in NewInputs
    /\ pc' = "load"
    /\ df' = NoTable
    /\ df_raw' = NoTable
    /\ metadata' = NoMetadata
    /\ date_range' = <<0, 0>>
    /\ selected_categories' = {}
    /\ selected_jurisdictions' = {}
    /\ fetch_failed' = FALSE
    /\ all_festivals' = <<>>
    /\ festivals_in_range_all' = <<>>
    /\ significant_festals_info' = <<>>
    /\ df_filtered' = <<>>
    /\ views' = {}
    /\ hr' = <<>>
    /\ hr_totals' = <<>>
    /\ UNCHANGED <<feed, fetched>>
    /\ UNCHANGED <<festivals, category, threshold_pct, min_calls, spc,
                   counts_by_date, idx, cur, max_pct, max_count, max_day,
                   day_count, baseline, pct, results>>

ScoreIdle ==
    /\ df = NoTable
    /\ festivals = <<>>
    /\ category = "crime"
    /\ threshold_pct = DefaultThresholdPct
    /\ min_calls = DefaultMinCalls
    /\ spc = "idle"
    /\ ScoreLocalsInit

\* one run of the script
Init ==
    /\ ScoreIdle
    /\ AppStart
    /\ pc = "load"
    /\ input \in AppInputs
    /\ feed \in FeedsOf(AppComponents)
    /\ fetched = FALSE

\* the steps of one run of the script
Script ==
    \/ Load \/ Preprocess \/ Widgets \/ WidgetsUndated \/ Fetch \/ Calendar
    \/ Filter \/ InRange \/ ScoreCall \/ ScoreStep \/ ScoreReturn \/ Tag \/ Views

Next == Script \/ Rerun \/ NewInput

Spec == Init /\ [][Next]_vars

\* the fetch step alone, on any feed
InitIcs ==
    /\ ScoreIdle
    /\ AppStart
    /\ pc = "fetch"
    /\ input = FileInput(TRUE, TRUE, TRUE, REQUIRED_COLUMNS, <<>>)
    /\ feed \in FeedsOf(IcsComponents)
    /\ fetched = FALSE

NextIcs == Fetch

SpecIcs == InitIcs /\ [][NextIcs]_vars

\* ------------------------------------------------ scoring: the claims
\* number of rows of df of the scored category on day d
CategoryCallsOn(d) ==
    Cardinality({i \in DOMAIN df.rows :
                    /\ Lower(df.rows[i].category) = Lower(category)
                    /\ df.rows[i].date = d})

\* number of rows of df of the scored category on a day with d's weekday
CategoryCallsOnWeekdayOf(d) ==
    Cardinality({i \in DOMAIN df.rows :
                    /\ Lower(df.rows[i].category) = Lower(category)
                    /\ df.rows[i].date # NaT
                    /\ weekday(df.rows[i].date) = weekday(d)})

\* number of dated rows of df of the scored category
CategoryCallsDated ==
    Cardinality({i \in DOMAIN df.rows :
                    /\ Lower(df.rows[i].category) = Lower(category)
                    /\ df.rows[i].date # NaT})

\* the dates that have at least one row of the scored category
CategoryDates ==
    {df.rows[i].date : i \in {j \in DOMAIN df.rows :
                                 Lower(df.rows[j].category) = Lower(category)}} \ {NaT}

\* the days of a festival interval
Days(f) == DateOf(f[2]) .. DateOf(f[3])

\* the pct of day d on the count table of df
PctOf(d) ==
    LET cbd == CountsByDate(df_cat(df.rows, category)) IN
    Pct(DayCount(cbd, d), Baseline(cbd, d))

\* the festival a result was emitted for
ResultKey(r) == <<r.name, r.start, r.end>>
ResultKeys == [k \in DOMAIN results |-> ResultKey(results[k])]

\* a day of f meets the floor and the threshold
HasSignificantDay(f) ==
    \E d \in Days(f) :
        CategoryCallsOn(d) >= min_calls /\ RatGE(PctOf(d), <<threshold_pct, 1>>)

\* the while loop has scored day cur - 1 of festival idx
DayScored == spc = "day" /\ cur > DateOf(festivals[idx][2])

\* C1: a day whose category count is below min_calls is never the tracked or
\* the reported peak day, and an interval whose days are all below min_calls
\* has no result
C1_FloorExcludesPeak ==
    /\ (spc = "day" /\ max_day # None) => CategoryCallsOn(max_day) >= min_calls
    /\ spc = "done" =>
         /\ \A k \in DOMAIN results :
                CategoryCallsOn(DateOf(results[k].max_day)) >= min_calls
         /\ \A i \in DOMAIN festivals :
                (\A d \in Days(festivals[i]) : CategoryCallsOn(d) < min_calls)
                    => ~ \E k \in DOMAIN results : ResultKeys[k] = festivals[i]

\* C1 witness: a result is reported although a day of its interval below the
\* floor has a higher pct than the reported peak
C1_Witness ==
    /\ spc = "done"
    /\ \E k \in DOMAIN results : \E d \in Days(ResultKeys[k]) :
           /\ CategoryCallsOn(d) < min_calls
           /\ RatGT(PctOf(d), results[k].max_pct)

\* C2: with a non-empty table that contains the category, the result list is
\* the list of the input intervals that have a day with count >= min_calls and
\* pct >= threshold_pct, one result each, in input order
C2_ResultIffSignificantDay ==
    (spc = "done" /\ ~ IsEmptyTable(df) /\ Len(df_cat(df.rows, category)) > 0)
        => ResultKeys = SelectSeq(festivals, HasSignificantDay)

\* C2 witness: of two intervals the first is left out and the second reported
C2_Witness ==
    /\ spc = "done"
    /\ Len(festivals) = 2
    /\ Len(results) = 1
    /\ ResultKeys[1] = festivals[2]
    /\ festivals[1] # festivals[2]

\* C3: a result's peak day lies in its interval, max_count and max_pct are that
\* day's count and pct, no day of the interval that meets the floor has a
\* higher pct, and among the days with that pct it is the earliest
C3_PeakIsEarliestMaximum ==
    spc = "done" =>
        \A k \in DOMAIN results :
            LET r == results[k]
                d == DateOf(r.max_day)
            IN  /\ d \in Days(ResultKeys[k])
                /\ r.max_day = ToTimestamp(d)
                /\ r.max_count = CategoryCallsOn(d)
                /\ RatEQ(r.max_pct, PctOf(d))
                /\ \A e \in Days(ResultKeys[k]) :
                       CategoryCallsOn(e) >= min_calls =>
                           /\ RatGE(PctOf(d), PctOf(e))
                           /\ RatEQ(PctOf(d), PctOf(e)) => d <= e

\* C3 witness: two days of a reported interval meet the floor with the same,
\* maximal pct
C3_Witness ==
    /\ spc = "done"
    /\ \E k \in DOMAIN results : \E e \in Days(ResultKeys[k]) :
           /\ e # DateOf(results[k].max_day)
           /\ CategoryCallsOn(e) >= min_calls
           /\ RatEQ(PctOf(e), results[k].max_pct)

\* C4: for a scored day d the baseline is (category rows on d's weekday) /
\* (dates of d's weekday that have category rows); without such a date it is
\* (dated category rows) / (dates with category rows); with no dated category
\* row it is 0; and pct = (day_count - baseline_adj) / baseline_adj * 100
C4_BaselineAndPct ==
    DayScored =>
        LET d == cur - 1
            same == {x \in CategoryDates : weekday(x) = weekday(d)}
            adj == IF baseline[1] > 0 THEN baseline ELSE <<1, 1>>
        IN  /\ day_count = CategoryCallsOn(d)
            /\ baseline[2] > 0
            /\ IF same # {}
               THEN baseline[1] * Cardinality(same)
                        = CategoryCallsOnWeekdayOf(d) * baseline[2]
               ELSE IF CategoryDates # {}
               THEN baseline[1] * Cardinality(CategoryDates)
                        = CategoryCallsDated * baseline[2]
               ELSE baseline[1] = 0
            /\ pct[2] > 0
            /\ pct[1] * adj[1] = (day_count * adj[2] - adj[1]) * 100 * pct[2]

\* C4 witness: the scored day's weekday baseline takes in a date that lies
\* outside the festival interval
C4_Witness ==
    /\ DayScored
    /\ \E x \in CategoryDates :
           /\ weekday(x) = weekday(cur - 1)
           /\ x \notin Days(festivals[idx])
    /\ CategoryCallsOn(cur - 1) > 0

\* the case of C5: default parameters, festival i is one Monday with 6 calls
\* of the category, and no other Monday has such a call
C5_Case(i) ==
    /\ category = "crime"
    /\ threshold_pct = DefaultThresholdPct
    /\ min_calls = DefaultMinCalls
    /\ DateOf(festivals[i][2]) = DateOf(festivals[i][3])
    /\ weekday(DateOf(festivals[i][2])) = 0
    /\ CategoryCallsOn(DateOf(festivals[i][2])) = 6
    /\ CategoryCallsOnWeekdayOf(DateOf(festivals[i][2])) = 6

\* C5 as claimed: in that case the festival is reported with pct 500 and
\* max_count 6
C5_AsClaimed ==
    spc = "done" =>
        \A i \in DOMAIN festivals :
            C5_Case(i) =>
                \E k \in DOMAIN results :
                    /\ ResultKeys[k] = festivals[i]
                    /\ results[k].max_count = 6
                    /\ RatEQ(results[k].max_pct, <<500, 1>>)

\* C5 amended: in that case the Monday is scored against a baseline of 6, its
\* own count, so that pct = 0, and the festival is not reported
C5_MondayIsItsOwnBaseline ==
    /\ (DayScored /\ C5_Case(idx)) =>
           /\ day_count = 6
           /\ RatEQ(baseline, <<6, 1>>)
           /\ RatEQ(pct, <<0, 1>>)
    /\ spc = "done" =>
           \A i \in DOMAIN festivals :
               C5_Case(i) => ~ \E k \in DOMAIN results : ResultKeys[k] = festivals[i]

\* C5 witness: the run has ended on an input of that case
C5_Witness ==
    /\ spc = "done"
    /\ \E i \in DOMAIN festivals : C5_Case(i)

\* the table is None or empty, or none of its rows is of the scored category,
\* upper and lower case taken as equal
NoCategoryRecord ==
    \/ IsEmptyTable(df)
    \/ \A i \in DOMAIN df.rows : Lower(df.rows[i].category) # Lower(category)

\* C14: when the table is None or empty or holds no row of the category
\* (compared case-insensitively), the function returns at once, without
\* looking at an interval, and its result is the empty list, whatever the
\* intervals, threshold_pct and min_calls
C14_EmptyDataEmptyResult ==
    NoCategoryRecord =>
        /\ spc \in {"begin", "done"}
        /\ results = <<>>

\* C14 witness: the function has returned on a table whose rows, enough to
\* meet the floor, are all of another category, with an interval to score
\* and threshold 0
C14_Witness ==
    /\ spc = "done"
    /\ NoCategoryRecord
    /\ ~ df.none
    /\ Len(df.rows) >= min_calls
    /\ festivals # <<>>
    /\ threshold_pct = 0
    /\ category = "CRIME"

\* C17: every entry of the count table is at least 1; when the table of the
\* category is not empty the baseline of every scored day is at least 1, so a
\* baseline <= 0 (replaced by 1) occurs only with an empty table; and the pct
\* of a scored day without a call of the category is exactly -100
C17_BaselineAtLeastOne ==
    /\ spc \in {"festival", "day"} =>
           /\ DOMAIN counts_by_date = CategoryDates
           /\ \A d \in DOMAIN counts_by_date : counts_by_date[d] >= 1
    /\ DayScored =>
           /\ CategoryDates # {} => baseline[1] >= baseline[2]
           /\ baseline[1] <= 0 => CategoryDates = {}
           /\ day_count = 0 => RatEQ(pct, <<-100, 1>>)

\* C17 witness: a day without a call of the category and without a date of
\* its weekday in the table has been scored against the overall mean, which
\* is above 1
C17_Witness ==
    /\ DayScored
    /\ day_count = 0
    /\ CategoryDates # {}
    /\ \A x \in CategoryDates : weekday(x) # weekday(cur - 1)
    /\ baseline[1] > baseline[2]
    /\ RatEQ(pct, <<-100, 1>>)

\* ------------------------------------------- feed and tagging: the claims
\* the run has tagged df_filtered
Tagged == pc \in {"views", "done"}

\* the in-range intervals whose [start, end] contains timestamp ts
Containing(ts) ==
    {j \in DOMAIN festivals_in_range_all :
        /\ ts # NaT
        /\ festivals_in_range_all[j][2] <= ts
        /\ ts <= festivals_in_range_all[j][3]}

\* the in-range intervals whose closed date range holds calendar day d
DateContaining(d) ==
    {j \in DOMAIN festivals_in_range_all :
        /\ d # NaT
        /\ DateOf(festivals_in_range_all[j][2]) <= d
        /\ d <= DateOf(festivals_in_range_all[j][3])}

\* C6 as claimed: a record with a valid timestamp whose calendar date lies in
\* the closed date range of an in-range interval is tagged with a festival
\* name, not with "Non-Festival"
C6_AsClaimed ==
    Tagged =>
        \A i \in DOMAIN df_filtered :
            (df_filtered[i].call_ts # NaT /\ DateContaining(df_filtered[i].date) # {})
                => df_filtered[i].festival_name # NonFestival

\* C7: a tagged record carries the name of the first in-range interval, in
\* catalog order, that contains its timestamp, and "Non-Festival" exactly
\* when no in-range interval contains it; no row is added or lost by tagging
C7_FirstContainingInterval ==
    Tagged =>
        /\ Len(df_filtered) = Len(Mask(df.rows, date_range, selected_categories,
                                       selected_jurisdictions))
        /\ \A i \in DOMAIN df_filtered :
               LET m == Containing(df_filtered[i].call_ts) IN
               IF m = {}
               THEN df_filtered[i].festival_name = NonFestival
               ELSE /\ df_filtered[i].festival_name # NonFestival
                    /\ df_filtered[i].festival_name =
                         festivals_in_range_all[CHOOSE j \in m : \A k \in m : j <= k][1]

\* C7 witness: a tagged record lies in two in-range intervals of different names
C7_Witness ==
    /\ Tagged
    /\ \E i \in DOMAIN df_filtered :
           \E j, k \in Containing(df_filtered[i].call_ts) :
               festivals_in_range_all[j][1] # festivals_in_range_all[k][1]

\* C8: with no in-range interval every filtered record is tagged
\* "Non-Festival", and a missing timestamp is tagged "Non-Festival" by
\* tag_festival_for_row against any list of in-range intervals
C8_NonFestivalDefaults ==
    /\ (Tagged /\ festivals_in_range_all = <<>>) =>
           \A i \in DOMAIN df_filtered : df_filtered[i].festival_name = NonFestival
    /\ pc \in {"tag", "views", "done"} =>
           tag_festival_for_row(NaT, festivals_in_range_all) = NonFestival

\* C8 witness: a run has tagged records against a feed that holds no event
C8_Witness ==
    /\ pc = "done"
    /\ feed.status = "ok"
    /\ feed.components = <<>>
    /\ all_festivals = <<>>
    /\ Len(df_filtered) > 0

\* C9: a fetch that returns yields one interval per VEVENT, in feed order, with
\* the event's name and start; the end of an all-day event is DTEND minus one
\* day, the end of a timed event is DTEND, an end before the start is replaced
\* by the start, and so end >= start
C9_CatalogIntervals ==
    (pc = "calendar" /\ ~ fetch_failed) =>
        /\ Len(all_festivals) =
               Cardinality({i \in DOMAIN feed.components :
                               feed.components[i].name = "VEVENT"})
        /\ \A i \in DOMAIN all_festivals :
               LET c == VEvents(feed)[i]
                   f == all_festivals[i]
                   start == IF c.allday THEN c.dtstart * TicksPerDay ELSE c.dtstart
                   end == IF c.allday THEN (c.dtend - 1) * TicksPerDay ELSE c.dtend
               IN  /\ f[1] = c.summary
                   /\ f[2] = start
                   /\ f[3] = (IF end < start THEN start ELSE end)
                   /\ f[3] >= f[2]

\* C9 witness: the returned catalog holds a clamped all-day event and a timed
\* event passed through unchanged
C9_Witness ==
    /\ pc = "calendar"
    /\ ~ fetch_failed
    /\ \E i, j \in DOMAIN all_festivals :
           /\ VEvents(feed)[i].allday
           /\ VEvents(feed)[i].dtend <= VEvents(feed)[i].dtstart
           /\ ~ VEvents(feed)[j].allday
           /\ VEvents(feed)[j].dtend > VEvents(feed)[j].dtstart

\* C10: after a failed fetch the run neither stops nor crashes, it can always
\* take its next step until it is done, the catalog, the in-range list and
\* the significance list are empty, every filtered record is tagged
\* "Non-Festival", and the finished run has rendered the main views
C10_FeedFailureIsNotFatal ==
    fetch_failed =>
        /\ pc \notin {"stopped", "crashed"}
        /\ pc # "done" => ENABLED Next
        /\ all_festivals = <<>>
        /\ festivals_in_range_all = <<>>
        /\ significant_festals_info = <<>>
        /\ results = <<>>
        /\ Tagged =>
               \A i \in DOMAIN df_filtered : df_filtered[i].festival_name = NonFestival
        /\ pc = "done" => MainViews \subseteq views

\* C10 witness: a run whose feed had a valid event and then one that does not
\* parse has finished with a non-empty filtered table
C10_Witness ==
    /\ fetch_failed
    /\ pc = "done"
    /\ feed.status = "ok"
    /\ Len(feed.components) >= 2
    /\ feed.components[1].has_end
    /\ Len(df_filtered) > 0

\* interval f and the window from midnight of the first selected day to the
\* end of the last selected day have a moment in common
OverlapsWindow(f, dr) ==
    /\ f[3] >= ToTimestamp(dr[1])
    /\ f[2] < ToTimestamp(dr[2] + 1)

\* C15 as claimed: the in-range list is the list of the catalog intervals
\* that overlap the window of the selected days, both days taken in full, in
\* catalog order, whether significant or not
C15_AsClaimed ==
    pc \in {"score", "tag", "views", "done"} =>
        festivals_in_range_all =
            SelectSeq(all_festivals, LAMBDA f : OverlapsWindow(f, date_range))

\* the hourly count table the run hands to interpret_hourly_distribution
HourlyCounts == IF festivals_in_range_all # <<>> THEN hr_totals ELSE hr

\* the filtered records with a valid hour
WithHour == {i \in DOMAIN df_filtered : df_filtered[i].hour # NaN}

\* C16 as claimed: the hourly count table of a finished run has 24 rows, row
\* k for hour k - 1 with the number of filtered records of that hour, 0
\* included, and its counts add up to the number of records with a valid
\* hour, with and without intervals in range
C16_AsClaimed ==
    pc = "done" =>
        /\ Len(HourlyCounts) = HoursPerDay
        /\ \A k \in 1..HoursPerDay :
               /\ HourlyCounts[k].hour = k - 1
               /\ HourlyCounts[k].count =
                      Cardinality({i \in WithHour : df_filtered[i].hour = k - 1})
        /\ SumCounts(HourlyCounts) = Cardinality(WithHour)

\* C18: the significance list of a run is determined by the loaded file, the
\* feed and the selected date range alone: it lists, in catalog order, the
\* in-range intervals that have a day with at least 5 "crime" calls and pct >=
\* 30 on the count table of all normalized rows of the file, each with the
\* earliest day of highest pct among its days that meet the floor and with
\* that day's count and pct; the selected categories and jurisdictions and
\* the filtered table do not enter
C18_SignificanceIgnoresFilters ==
    pc \in {"tag", "views", "done"} =>
        LET cbd == CountsByDate(df_cat(preprocess(df_raw.rows), "crime"))
            P(d) == Pct(DayCount(cbd, d), Baseline(cbd, d))
            Meets(d) == DayCount(cbd, d) >= DefaultMinCalls
            expected ==
                SelectSeq(FestivalsInRange(Catalog(feed), date_range),
                          LAMBDA f : \E d \in Days(f) :
                              Meets(d) /\ RatGE(P(d), <<DefaultThresholdPct, 1>>))
            sig == significant_festals_info
        IN  /\ Len(sig) = Len(expected)
            /\ \A k \in DOMAIN sig :
                   LET d == DateOf(sig[k].max_day) IN
                   /\ <<sig[k].name, sig[k].start, sig[k].end>> = expected[k]
                   /\ d \in Days(expected[k])
                   /\ Meets(d)
                   /\ sig[k].max_count = DayCount(cbd, d)
                   /\ RatEQ(sig[k].max_pct, P(d))
                   /\ \A e \in Days(expected[k]) :
                          Meets(e) =>
                              /\ RatGE(P(d), P(e))
                              /\ RatEQ(P(d), P(e)) => d <= e

\* C18 witness: a run in which no category is selected has finished, the
\* filtered table is empty although the file has rows, and the significance
\* list is not empty
C18_Witness ==
    /\ pc = "done"
    /\ selected_categories = {}
    /\ df_filtered = <<>>
    /\ df_raw.rows # <<>>
    /\ significant_festals_info # <<>>

\* ------------------------------------------- session and load: the claims
\* C11 as claimed: the feed is requested at most once in a session: once a
\* request was sent, no run of the session can send another
C11_AsClaimed == fetched => ~ ENABLED Fetch

\* the run reads a file (the upload, or else the sample) that lacks a
\* required column
LoadFails ==
    /\ input.uploaded \/ (input.use_sample /\ input.sample_exists)
    /\ REQUIRED_COLUMNS \ input.columns # {}

\* C12: load_data on a table that lacks any required column raises and
\* returns neither table nor metadata; a run that reads such a file has no
\* table, no metadata, no normalized or filtered table, no in-range or
\* significance list and no view, never enters the scoring function, and once
\* stopped takes no further step of the script
C12_MissingColumnHalts ==
    /\ pc = "load" =>
           \A cols \in SUBSET REQUIRED_COLUMNS :
               cols # REQUIRED_COLUMNS =>
                   /\ load_data(cols, input.rows).raises
                   /\ load_data(cols, input.rows).df = NoTable
                   /\ load_data(cols, input.rows).metadata = NoMetadata
    /\ LoadFails =>
           /\ pc \in {"load", "stopped"}
           /\ df_raw = NoTable
           /\ metadata = NoMetadata
           /\ df = NoTable
           /\ df_filtered = <<>>
           /\ festivals_in_range_all = <<>>
           /\ significant_festals_info = <<>>
           /\ views = {}
           /\ spc = "idle"
           /\ pc = "stopped" => ~ ENABLED Script

\* C12 witness: after a run that finished, a file that lacks exactly one
\* required column was uploaded, and the run on it has stopped
C12_Witness ==
    /\ pc = "stopped"
    /\ fetched
    /\ input.uploaded
    /\ Cardinality(REQUIRED_COLUMNS \ input.columns) = 1
    /\ input.rows # <<>>

\* C13 as claimed: the normalized table has the rows of the raw table, one
\* for one; a row whose timestamp does not parse is marked bad and its date,
\* hour, weekday, month, year and weekend flag are all absent; in a row whose
\* timestamp parses all six are present
C13_AsClaimed ==
    ~ df.none =>
        /\ Len(df.rows) = Len(df_raw.rows)
        /\ \A i \in DOMAIN df.rows :
               LET r == df.rows[i] IN
               IF df_raw.rows[i].call_ts < 0
               THEN /\ "bad_timestamp" \in DOMAIN r
                    /\ r.bad_timestamp
                    /\ r.call_ts = NaT
                    /\ r.date = NaT
                    /\ r.hour = NaN
                    /\ r.weekday = NoDayName
                    /\ r.month = NaN
                    /\ r.year = NaN
                    /\ r.is_weekend \notin BOOLEAN
               ELSE /\ r.call_ts = df_raw.rows[i].call_ts
                    /\ r.date \in Nat
                    /\ r.hour \in 0 .. (HoursPerDay - 1)
                    /\ r.weekday # NoDayName
                    /\ r.month \in 1..12
                    /\ r.year \in Nat
                    /\ r.is_weekend \in BOOLEAN

\* nothing is uploaded, and the sample option is off or the sample file is
\* not there
NoTableAvailable ==
    /\ ~ input.uploaded
    /\ ~ (input.use_sample /\ input.sample_exists)

\* C19 as claimed: preprocess is called only on a loaded table, and a run for
\* which no table is available stops after its message
C19_AsClaimed ==
    /\ pc = "preprocess" => ~ df_raw.none
    /\ NoTableAvailable => pc \in {"load", "stopped"}

====
